---- MODULE Spec2Model ----
(***************************************************************************)
(* Model of the granter account contract                                   *)
(* (cosmwasm/contracts/granter/src/execute.rs and contract.rs).            *)
(*                                                                         *)
(* Persistent state: the PUBKEY item and the GRANTS map.  The host         *)
(* supplies the block (env.block) and issues one invocation at a time;     *)
(* `last` holds the invocation just run with its arguments and result      *)
(* until the host has taken the response; for grant and revoke it also     *)
(* records, as `prev`, what GRANTS held under the key when the call came.  *)
(***************************************************************************)
EXTENDS Integers, Sequences, FiniteSets, TLC

VARIABLES PUBKEY, GRANTS, block, last

vars == <<PUBKEY, GRANTS, block, last>>

(***************************************************************************)
(* Bounds of the model.                                                    *)
(***************************************************************************)
\* longest message batch handed to before_tx
MaxMsgs == 2
\* last block height the host reaches
MaxHeight == 2

\* largest page size asked of the grants query
MaxLimit == 2

(***************************************************************************)
(* Value domains.                                                          *)
(***************************************************************************)
\* public keys (Binary); InstantiateMsg.pubkey is drawn from OwnerKeys (the keys
\* are interchangeable, so one choice of owner stands for either)
Keys == {"k1", "k2"}
OwnerKeys == {"k1"}
\* StargateMsg.type_url values
TypeUrls == {"/bank.MsgSend", "/gov.MsgVote"}
\* sign_bytes values
Payloads == {"p1", "p2"}
\* the account's own address (env.contract.address) and another sender
ContractAddr == "account"
Senders == {"account", "stranger"}

\* PUBKEY not saved yet / GRANTS holds nothing under a key
NoKey == "unset"
Absent == [absent |-> TRUE]

\* Option<Expiration>: None, or Some of AtHeight(h) | AtTime(t) | Never {}
NoExpiry == [kind |-> "None", at |-> 0]
Never == [kind |-> "Never", at |-> 0]
AtHeight(h) == [kind |-> "AtHeight", at |-> h]
AtTime(t) == [kind |-> "AtTime", at |-> t]

\* block times run one ahead of block heights (see AdvanceBlock)
Heights == 1..MaxHeight
Times == 1..(MaxHeight + 1)
Expiries == {NoExpiry, Never} \cup {AtHeight(h) : h \in Heights}
                              \cup {AtTime(t) : t \in Times}

\* msg::Grant
Grant(expiry) == [expiry |-> expiry]

GrantKeys == TypeUrls \X Keys

\* all message batches of at most MaxMsgs messages, each reduced to its type_url
Batches == UNION {[1..n -> TypeUrls] : n \in 0..MaxMsgs}

(***************************************************************************)
(* Signatures.  A well-formed signature is made by one key over one        *)
(* digest; Malformed stands for bytes the verifier rejects with an error.  *)
(***************************************************************************)
\* sha256 of the sign bytes: a digest, distinct payloads giving distinct digests
sha256(msg) == IF msg = "p1" THEN "d1:9f2c" ELSE "d2:47ab"

Malformed == [signer |-> "none", digest |-> "none"]
SignedBy(k, payload) == [signer |-> k, digest |-> sha256(payload)]
Signatures == {SignedBy(k, "p1") : k \in Keys} \cup {Malformed}

\* deps.api.secp256k1_verify: Ok(true), Ok(false), or Err for malformed input
secp256k1_verify(hash, signature, pubkey) ==
    IF signature = Malformed THEN "Err"
    ELSE IF signature.signer = pubkey /\ signature.digest = hash THEN "true"
    ELSE "false"

\* Binary::to_base64 of a key
to_base64(key) == IF key = "k1" THEN "azE=" ELSE IF key = "k2" THEN "azI=" ELSE "?"

(***************************************************************************)
(* Results (ContractResult<Response>).                                     *)
(***************************************************************************)
Ok == [kind |-> "Ok", type_url |-> "-", grantee |-> "-"]
Err(kind) == [kind |-> kind, type_url |-> "-", grantee |-> "-"]
GrantNotFound(type_url, grantee) ==
    [kind |-> "GrantNotFound", type_url |-> type_url, grantee |-> grantee]
GrantExpired(type_url, grantee) ==
    [kind |-> "GrantExpired", type_url |-> type_url, grantee |-> grantee]

\* the ContractError a failed PUBKEY.load becomes through `?`
FromLoadError == Err("NotInitialized")
\* the ContractError a VerificationError becomes through `?`
FromVerificationError == Err("InvalidSignature")

(***************************************************************************)
(* execute.rs                                                              *)
(***************************************************************************)
\* Expiration::is_expired(&block)
is_expired(expiry, blk) ==
    CASE expiry.kind = "AtHeight" -> blk.height >= expiry.at
      [] expiry.kind = "AtTime" -> blk.time >= expiry.at
      [] OTHER -> FALSE

\* assert_self(sender, contract)
assert_self(sender, contract) ==
    IF sender # contract THEN Err("Unauthorized") ELSE Ok

\* GRANTS.may_load(store, (type_url, grantee))
may_load(grants, type_url, grantee) == grants[<<type_url, grantee>>]

\* assert_has_grant: the loop over msgs, returning at the first failure
RECURSIVE assert_has_grant_from(_, _, _, _, _)
assert_has_grant_from(grants, blk, msgs, grantee, i) ==
    IF i > Len(msgs) THEN Ok
    ELSE LET grant == may_load(grants, msgs[i], grantee) IN
         IF grant = Absent
         THEN GrantNotFound(msgs[i], to_base64(grantee))
         ELSE IF grant.expiry.kind # "None" /\ is_expired(grant.expiry, blk)
         THEN GrantExpired(msgs[i], to_base64(grantee))
         ELSE assert_has_grant_from(grants, blk, msgs, grantee, i + 1)

\* variant: only the first message of the batch is checked
assert_has_grant_first_only(grants, blk, msgs, grantee) ==
    IF msgs = <<>> THEN Ok
    ELSE assert_has_grant_from(grants, blk, <<msgs[1]>>, grantee, 1)

\* variant: an expired grant is reported like a missing one
assert_has_grant_expired_as_missing(grants, blk, msgs, grantee) ==
    LET r == assert_has_grant_from(grants, blk, msgs, grantee, 1) IN
    IF r.kind = "GrantExpired" THEN GrantNotFound(r.type_url, r.grantee) ELSE r

\* variant: the loop goes on after a missing grant and reports the last failure
RECURSIVE assert_has_grant_last_failure(_, _, _, _)
assert_has_grant_last_failure(grants, blk, msgs, grantee) ==
    IF msgs = <<>> THEN Ok
    ELSE LET n == Len(msgs)
             here == assert_has_grant_from(grants, blk, <<msgs[n]>>, grantee, 1)
         IN  IF here # Ok THEN here
             ELSE assert_has_grant_last_failure(grants, blk, SubSeq(msgs, 1, n - 1),
                                                grantee)

\* variant: two passes, all lookups first, the expiries afterwards
assert_has_grant_missing_first(grants, blk, msgs, grantee) ==
    LET missing == {i \in 1..Len(msgs) : may_load(grants, msgs[i], grantee) = Absent}
        first == CHOOSE i \in missing : \A j \in missing : i <= j
    IN  IF missing # {} THEN GrantNotFound(msgs[first], to_base64(grantee))
        ELSE assert_has_grant_from(grants, blk, msgs, grantee, 1)

\* variant: a batch without messages is refused
assert_has_grant_nonempty(grants, blk, msgs, grantee) ==
    IF msgs = <<>> THEN GrantNotFound("", to_base64(grantee))
    ELSE assert_has_grant_from(grants, blk, msgs, grantee, 1)

assert_has_grant(grants, blk, msgs, grantee) ==
    assert_has_grant_from(grants, blk, msgs, grantee, 1)

\* variant: the signature is verified against the owner key, not the signer's
before_tx_verify_owner(self_pubkey, grants, blk, msgs, pubkey, sign_bytes, signature) ==
    LET signer == IF pubkey = NoKey THEN self_pubkey ELSE pubkey
        granted == IF signer # self_pubkey
                   THEN assert_has_grant(grants, blk, msgs, signer)
                   ELSE Ok
        verified == secp256k1_verify(sha256(sign_bytes), signature, self_pubkey)
    IN  IF self_pubkey = NoKey THEN FromLoadError
        ELSE IF granted # Ok THEN granted
        ELSE IF verified = "Err" THEN FromVerificationError
        ELSE IF verified = "false" THEN Err("InvalidSignature")
        ELSE Ok

\* variant: the grant check runs for the owner too
before_tx_owner_checked(self_pubkey, grants, blk, msgs, pubkey, sign_bytes, signature) ==
    LET signer == IF pubkey = NoKey THEN self_pubkey ELSE pubkey
        granted == assert_has_grant(grants, blk, msgs, signer)
        verified == secp256k1_verify(sha256(sign_bytes), signature, signer)
    IN  IF self_pubkey = NoKey THEN FromLoadError
        ELSE IF granted # Ok THEN granted
        ELSE IF verified = "Err" THEN FromVerificationError
        ELSE IF verified = "false" THEN Err("InvalidSignature")
        ELSE Ok

\* variant: a signature the verifier answers false for is let through
before_tx_false_accepted(self_pubkey, grants, blk, msgs, pubkey, sign_bytes, signature) ==
    LET signer == IF pubkey = NoKey THEN self_pubkey ELSE pubkey
        granted == IF signer # self_pubkey
                   THEN assert_has_grant(grants, blk, msgs, signer)
                   ELSE Ok
        verified == secp256k1_verify(sha256(sign_bytes), signature, signer)
    IN  IF self_pubkey = NoKey THEN FromLoadError
        ELSE IF granted # Ok THEN granted
        ELSE IF verified = "Err" THEN FromVerificationError
        ELSE Ok

\* variant: the owner key is loaded only after the grant check and verification
before_tx_late_load(self_pubkey, grants, blk, msgs, pubkey, sign_bytes, signature) ==
    LET signer == IF pubkey = NoKey THEN self_pubkey ELSE pubkey
        granted == IF signer # self_pubkey
                   THEN assert_has_grant(grants, blk, msgs, signer)
                   ELSE Ok
        verified == secp256k1_verify(sha256(sign_bytes), signature, signer)
    IN  IF granted # Ok THEN granted
        ELSE IF verified = "Err" THEN FromVerificationError
        ELSE IF verified = "false" THEN Err("InvalidSignature")
        ELSE IF self_pubkey = NoKey THEN FromLoadError
        ELSE Ok

\* variant: the signature is verified before the grants are looked up
before_tx_verify_first(self_pubkey, grants, blk, msgs, pubkey, sign_bytes, signature) ==
    LET signer == IF pubkey = NoKey THEN self_pubkey ELSE pubkey
        granted == IF signer # self_pubkey
                   THEN assert_has_grant(grants, blk, msgs, signer)
                   ELSE Ok
        verified == secp256k1_verify(sha256(sign_bytes), signature, signer)
    IN  IF self_pubkey = NoKey THEN FromLoadError
        ELSE IF verified = "Err" THEN FromVerificationError
        ELSE IF verified = "false" THEN Err("InvalidSignature")
        ELSE IF granted # Ok THEN granted
        ELSE Ok

\* before_tx: the result; pubkey is NoKey when the caller passed None
before_tx(self_pubkey, grants, blk, msgs, pubkey, sign_bytes, signature) ==
    LET sign_bytes_hash == sha256(sign_bytes)
        signer == IF pubkey = NoKey THEN self_pubkey ELSE pubkey
        granted == IF signer # self_pubkey
                   THEN assert_has_grant(grants, blk, msgs, signer)
                   ELSE Ok
        verified == secp256k1_verify(sign_bytes_hash, signature, signer)
    IN  IF self_pubkey = NoKey THEN FromLoadError
        ELSE IF granted # Ok THEN granted
        ELSE IF verified = "Err" THEN FromVerificationError
        ELSE IF verified = "false" THEN Err("InvalidSignature")
        ELSE Ok

\* after_tx
after_tx == Ok

\* variant: the supplied expiry is not checked against the block
grant_result_no_expiry_check(blk, sender, expiry) ==
    assert_self(sender, ContractAddr)

\* variant: grant takes an expiry as met only once the block is past it
grant_result_accepts_boundary(blk, sender, expiry) ==
    IF assert_self(sender, ContractAddr) # Ok THEN assert_self(sender, ContractAddr)
    ELSE IF \/ expiry.kind = "AtHeight" /\ blk.height > expiry.at
            \/ expiry.kind = "AtTime" /\ blk.time > expiry.at
         THEN Err("NewGrantExpired")
    ELSE Ok

\* variant: the expiry is checked before the caller
grant_result_expiry_first(blk, sender, expiry) ==
    IF expiry.kind # "None" /\ is_expired(expiry, blk) THEN Err("NewGrantExpired")
    ELSE assert_self(sender, ContractAddr)

\* grant: the result
grant_result(blk, sender, expiry) ==
    IF assert_self(sender, ContractAddr) # Ok THEN assert_self(sender, ContractAddr)
    ELSE IF expiry.kind # "None" /\ is_expired(expiry, blk) THEN Err("NewGrantExpired")
    ELSE Ok

\* variant: an existing grant under the key is kept, not overwritten
grant_store_keep_existing(grants, blk, sender, type_url, grantee, expiry) ==
    IF grant_result(blk, sender, expiry) = Ok
       /\ grants[<<type_url, grantee>>] = Absent
    THEN [grants EXCEPT ![<<type_url, grantee>>] = Grant(expiry)]
    ELSE grants

\* variant: the grant is saved under the scope for every delegate
grant_store_scope_wide(grants, blk, sender, type_url, grantee, expiry) ==
    IF grant_result(blk, sender, expiry) = Ok
    THEN [k \in DOMAIN grants |-> IF k[1] = type_url THEN Grant(expiry) ELSE grants[k]]
    ELSE grants

\* grant: the GRANTS map it leaves (GRANTS.save runs only on the success path)
grant_store(grants, blk, sender, type_url, grantee, expiry) ==
    IF grant_result(blk, sender, expiry) = Ok
    THEN [grants EXCEPT ![<<type_url, grantee>>] = Grant(expiry)]
    ELSE grants

\* revoke: the result
revoke_result(sender) == assert_self(sender, ContractAddr)

\* variant: the removal runs before the caller is checked
revoke_store_unchecked(grants, sender, type_url, grantee) ==
    [grants EXCEPT ![<<type_url, grantee>>] = Absent]

\* variant: revoke removes every grant of the delegate, whatever the scope
revoke_store_all_scopes(grants, sender, type_url, grantee) ==
    IF revoke_result(sender) = Ok
    THEN [k \in DOMAIN grants |-> IF k[2] = grantee THEN Absent ELSE grants[k]]
    ELSE grants

\* revoke: the GRANTS map it leaves (GRANTS.remove runs only on the success path)
revoke_store(grants, sender, type_url, grantee) ==
    IF revoke_result(sender) = Ok
    THEN [grants EXCEPT ![<<type_url, grantee>>] = Absent]
    ELSE grants

(***************************************************************************)
(* The queries (query.rs, dispatched by contract.rs query).                *)
(***************************************************************************)
\* the order of the GRANTS map: by type_url, then by grantee, each compared as
\* strings ("/bank.MsgSend" < "/gov.MsgVote", "k1" < "k2")
UrlOrder == <<"/bank.MsgSend", "/gov.MsgVote">>
KeyOrder == <<"k1", "k2">>
Rank(order, x) == CHOOSE i \in 1..Len(order) : order[i] = x

KeyLess(a, b) ==
    \/ Rank(UrlOrder, a[1]) < Rank(UrlOrder, b[1])
    \/ a[1] = b[1] /\ Rank(KeyOrder, a[2]) < Rank(KeyOrder, b[2])

\* the keys of a set in ascending order
RECURSIVE Ascending(_)
Ascending(keys) ==
    IF keys = {} THEN <<>>
    ELSE LET least == CHOOSE k \in keys : \A j \in keys : j = k \/ KeyLess(k, j)
         IN  <<least>> \o Ascending(keys \ {least})

\* start_after: None
NoCursor == <<>>
Cursors == GrantKeys \cup {NoCursor}
Limits == 1..MaxLimit

\* one listed grant
Listed(grants, k) == [type_url |-> k[1], grantee |-> k[2], expiry |-> grants[k].expiry]

\* query::pubkey
query_pubkey(self_pubkey) ==
    IF self_pubkey = NoKey THEN FromLoadError
    ELSE [kind |-> "Ok", pubkey |-> self_pubkey]

\* query::grant
query_grant(grants, type_url, grantee) == may_load(grants, type_url, grantee)

\* query::grants: the entries after start_after, ascending, at most limit of them
query_grants(grants, start_after, limit) ==
    LET keys == {k \in DOMAIN grants :
                    /\ grants[k] # Absent
                    /\ start_after = NoCursor \/ KeyLess(start_after, k)}
        sorted == Ascending(keys)
        n == IF Len(sorted) < limit THEN Len(sorted) ELSE limit
    IN  [i \in 1..n |-> Listed(grants, sorted[i])]

(***************************************************************************)
(* The state machine.                                                      *)
(***************************************************************************)
Idle == [op |-> "idle"]

Init ==
    /\ PUBKEY = NoKey
    /\ GRANTS = [k \in GrantKeys |-> Absent]
    /\ block = [height |-> 1, time |-> 2]
    /\ last = Idle

\* contract.rs instantiate -> execute::init; the host instantiates a contract once
Instantiate(pubkey) ==
    /\ last = Idle
    /\ PUBKEY = NoKey
    /\ PUBKEY' = pubkey
    /\ last' = [op |-> "instantiate", pubkey |-> pubkey, result |-> Ok]
    /\ UNCHANGED <<GRANTS, block>>

\* variant: an accepted delegate transaction uses up the grants it relied on
BeforeTx_consuming(msgs, pubkey, sign_bytes, signature) ==
    LET result == before_tx(PUBKEY, GRANTS, block, msgs, pubkey, sign_bytes, signature)
    IN  /\ last = Idle
        /\ last' = [op |-> "before_tx", msgs |-> msgs, pubkey |-> pubkey,
                    sign_bytes |-> sign_bytes, signature |-> signature,
                    result |-> result]
        /\ GRANTS' = IF result = Ok /\ pubkey \notin {NoKey, PUBKEY}
                     THEN [k \in DOMAIN GRANTS |->
                             IF k[2] = pubkey /\ \E i \in 1..Len(msgs) : msgs[i] = k[1]
                             THEN Absent ELSE GRANTS[k]]
                     ELSE GRANTS
        /\ UNCHANGED <<PUBKEY, block>>

\* contract.rs sudo, AccountSudoMsg::BeforeTx -> execute::before_tx
BeforeTx(msgs, pubkey, sign_bytes, signature) ==
    /\ last = Idle
    /\ last' = [op |-> "before_tx", msgs |-> msgs, pubkey |-> pubkey,
                sign_bytes |-> sign_bytes, signature |-> signature,
                result |-> before_tx(PUBKEY, GRANTS, block, msgs, pubkey,
                                     sign_bytes, signature)]
    /\ UNCHANGED <<PUBKEY, GRANTS, block>>

\* contract.rs sudo, AccountSudoMsg::AfterTx -> execute::after_tx
AfterTx ==
    /\ last = Idle
    /\ last' = [op |-> "after_tx", result |-> after_tx]
    /\ UNCHANGED <<PUBKEY, GRANTS, block>>

\* variant: a successful grant saves the grantee in the PUBKEY item as well
DoGrant_writes_pubkey(sender, type_url, grantee, expiry) ==
    /\ last = Idle
    /\ PUBKEY # NoKey
    /\ GRANTS' = grant_store(GRANTS, block, sender, type_url, grantee, expiry)
    /\ PUBKEY' = IF grant_result(block, sender, expiry) = Ok THEN grantee ELSE PUBKEY
    /\ last' = [op |-> "grant", sender |-> sender, type_url |-> type_url,
                grantee |-> grantee, expiry |-> expiry,
                prev |-> may_load(GRANTS, type_url, grantee),
                result |-> grant_result(block, sender, expiry)]
    /\ UNCHANGED block

\* contract.rs execute, ExecuteMsg::Grant -> execute::grant
\* (the host delivers execute messages to an instantiated contract only)
DoGrant(sender, type_url, grantee, expiry) ==
    /\ last = Idle
    /\ PUBKEY # NoKey
    /\ GRANTS' = grant_store(GRANTS, block, sender, type_url, grantee, expiry)
    /\ last' = [op |-> "grant", sender |-> sender, type_url |-> type_url,
                grantee |-> grantee, expiry |-> expiry,
                prev |-> may_load(GRANTS, type_url, grantee),
                result |-> grant_result(block, sender, expiry)]
    /\ UNCHANGED <<PUBKEY, block>>

\* contract.rs execute, ExecuteMsg::Revoke -> execute::revoke
\* (the host delivers execute messages to an instantiated contract only)
DoRevoke(sender, type_url, grantee) ==
    /\ last = Idle
    /\ PUBKEY # NoKey
    /\ GRANTS' = revoke_store(GRANTS, sender, type_url, grantee)
    /\ last' = [op |-> "revoke", sender |-> sender, type_url |-> type_url,
                grantee |-> grantee,
                prev |-> may_load(GRANTS, type_url, grantee),
                result |-> revoke_result(sender)]
    /\ UNCHANGED <<PUBKEY, block>>

\* contract.rs query, QueryMsg::Pubkey -> query::pubkey
QueryPubkey ==
    /\ last = Idle
    /\ last' = [op |-> "pubkey", response |-> query_pubkey(PUBKEY)]
    /\ UNCHANGED <<PUBKEY, GRANTS, block>>

\* contract.rs query, QueryMsg::Grant -> query::grant
QueryGrant(type_url, grantee) ==
    /\ last = Idle
    /\ last' = [op |-> "grant?", type_url |-> type_url, grantee |-> grantee,
                response |-> query_grant(GRANTS, type_url, grantee)]
    /\ UNCHANGED <<PUBKEY, GRANTS, block>>

\* variant: the dispatch drops start_after
QueryGrants_from_start(start_after, limit) ==
    /\ last = Idle
    /\ last' = [op |-> "grants?", start_after |-> start_after, limit |-> limit,
                response |-> query_grants(GRANTS, NoCursor, limit)]
    /\ UNCHANGED <<PUBKEY, GRANTS, block>>

\* contract.rs query, QueryMsg::Grants -> query::grants
QueryGrants(start_after, limit) ==
    /\ last = Idle
    /\ last' = [op |-> "grants?", start_after |-> start_after, limit |-> limit,
                response |-> query_grants(GRANTS, start_after, limit)]
    /\ UNCHANGED <<PUBKEY, GRANTS, block>>

\* the host takes the response of the invocation that just ran
Respond ==
    /\ last # Idle
    /\ last' = Idle
    /\ UNCHANGED <<PUBKEY, GRANTS, block>>

\* the chain produces the next block: env.block of later invocations
AdvanceBlock ==
    /\ last = Idle
    /\ block.height < MaxHeight
    /\ block' = [height |-> block.height + 1, time |-> block.time + 1]
    /\ UNCHANGED <<PUBKEY, GRANTS, last>>

\* The entry points, each run by the host when no response is pending, with
\* every input the host may pass.
CallInstantiate ==
    last = Idle /\ \E pubkey \in OwnerKeys : Instantiate(pubkey)

CallBeforeTx ==
    last = Idle /\ \E msgs \in Batches, pubkey \in Keys \cup {NoKey},
                      sign_bytes \in Payloads, signature \in Signatures :
                        BeforeTx(msgs, pubkey, sign_bytes, signature)

CallGrant ==
    last = Idle /\ \E sender \in Senders, type_url \in TypeUrls, grantee \in Keys,
                      expiry \in Expiries :
                        DoGrant(sender, type_url, grantee, expiry)

CallRevoke ==
    last = Idle /\ \E sender \in Senders, type_url \in TypeUrls, grantee \in Keys :
                        DoRevoke(sender, type_url, grantee)

CallQueryGrant ==
    last = Idle /\ \E type_url \in TypeUrls, grantee \in Keys :
                        QueryGrant(type_url, grantee)

CallQueryGrants ==
    last = Idle /\ \E start_after \in Cursors, limit \in Limits :
                        QueryGrants(start_after, limit)

Next ==
    \/ CallInstantiate
    \/ CallBeforeTx
    \/ AfterTx
    \/ CallGrant
    \/ CallRevoke
    \/ QueryPubkey
    \/ CallQueryGrant
    \/ CallQueryGrants
    \/ Respond
    \/ AdvanceBlock

Spec == Init /\ [][Next]_vars

(***************************************************************************)
(* Vocabulary of the properties.                                           *)
(***************************************************************************)
\* the expiry condition is met at the block: height or time reached
ExpiryMet(expiry, blk) ==
    \/ expiry.kind = "AtHeight" /\ expiry.at <= blk.height
    \/ expiry.kind = "AtTime" /\ expiry.at <= blk.time

\* the ledger holds a grant under (type_url, key)
Present(type_url, key) == GRANTS[<<type_url, key>>] # Absent

\* the ledger holds a grant under (type_url, key) whose expiry is not met now
Covered(type_url, key) ==
    /\ Present(type_url, key)
    /\ ~ExpiryMet(GRANTS[<<type_url, key>>].expiry, block)

\* the last invocation was before_tx, on an initialized account
IsBeforeTx == last.op = "before_tx" /\ PUBKEY # NoKey

\* ... with a claimed signer key different from the owner key
ByDelegate == IsBeforeTx /\ last.pubkey \notin {NoKey, PUBKEY}

\* ... with the owner as effective signer (key omitted, or the owner key claimed)
ByOwner == IsBeforeTx /\ last.pubkey \in {NoKey, PUBKEY}

\* the effective signer of the last before_tx
Signer == IF last.pubkey = NoKey THEN PUBKEY ELSE last.pubkey

\* the signature of the last before_tx is the signer's, over the payload's hash
SignatureVerifies ==
    /\ last.signature # Malformed
    /\ last.signature.signer = Signer
    /\ last.signature.digest = sha256(last.sign_bytes)

\* the signature of the last before_tx is well formed but does not verify
SignatureRejected == last.signature # Malformed /\ ~SignatureVerifies

\* every message of the last batch is covered for the claimed signer
AllCovered == \A i \in 1..Len(last.msgs) : Covered(last.msgs[i], last.pubkey)

GrantErrors == {"GrantNotFound", "GrantExpired"}

(***************************************************************************)
(* C1 .. C10                                                               *)
(***************************************************************************)

\* C1: a before_tx with a claimed signer key different from the owner key is
\* accepted only if the ledger holds, for every message of the batch, a grant
\* under (message scope, signer) whose expiry is not met at the current block;
\* one uncovered message rejects the whole batch.
C1_DelegateNeedsEveryGrant ==
    (ByDelegate /\ last.result = Ok) => AllCovered

\* the second of two messages is uncovered, the first is covered: rejected
C1_Witness ==
    /\ ByDelegate
    /\ Len(last.msgs) = 2
    /\ Covered(last.msgs[1], last.pubkey)
    /\ ~Covered(last.msgs[2], last.pubkey)
    /\ SignatureVerifies
    /\ last.result # Ok

\* C2: for a non-owner signer holding a present, unexpired grant for the scope
\* of every message of the batch, before_tx succeeds if and only if the
\* signature verifies against the signer's key and the hash of the payload.
C2_CoveredDelegateIffSignature ==
    (ByDelegate /\ AllCovered) => (last.result = Ok <=> SignatureVerifies)

\* a delegate covered for a two-scope batch is accepted
C2_Witness ==
    /\ ByDelegate
    /\ Len(last.msgs) = 2
    /\ last.msgs[1] # last.msgs[2]
    /\ AllCovered
    /\ SignatureVerifies
    /\ last.result = Ok

\* C3: when the effective signer is the owner (key omitted or equal to the
\* owner key) before_tx does not consult the ledger: a verifying signature is
\* accepted whatever the ledger and the batch, a signature that does not verify
\* fails InvalidSignature, and no grant error is ever returned.
C3_OwnerNeedsOnlySignature ==
    ByOwner =>
        /\ SignatureVerifies => last.result = Ok
        /\ SignatureRejected => last.result = Err("InvalidSignature")
        /\ ~SignatureVerifies => last.result # Ok
        /\ last.result.kind \notin GrantErrors

\* the owner key is claimed, the ledger has no grant for the first scope under
\* the owner key and an expired one for the second: accepted
C3_Witness ==
    /\ ByOwner
    /\ last.pubkey = PUBKEY
    /\ Len(last.msgs) = 2
    /\ ~Present(last.msgs[1], PUBKEY)
    /\ Present(last.msgs[2], PUBKEY)
    /\ ~Covered(last.msgs[2], PUBKEY)
    /\ last.result = Ok

\* C4: a grant or revoke whose sender is not the account's own address fails
\* Unauthorized, whatever the scope, delegate and expiry, and leaves the ledger
\* and the owner key unchanged.
C4_StrangerStep ==
    (last'.op \in {"grant", "revoke"} /\ last'.sender # ContractAddr) =>
        /\ last'.result = Err("Unauthorized")
        /\ GRANTS' = GRANTS
        /\ PUBKEY' = PUBKEY

\* C4: every step is such a step: a grant or revoke by another sender fails
\* Unauthorized and changes neither the ledger nor the owner key.
C4_OnlySelfMutates == [][C4_StrangerStep]_vars

\* a stranger's grant that would have replaced the stored grant is refused
C4_Witness ==
    /\ last.op = "grant"
    /\ last.sender # ContractAddr
    /\ ~ExpiryMet(last.expiry, block)
    /\ last.prev # Absent
    /\ last.prev # Grant(last.expiry)
    /\ last.result = Err("Unauthorized")

\* C5: a stored grant outlives its expiry: the record stays in the ledger when
\* the block passes the expiry (only a successful revoke of the key removes
\* it), before_tx then reports GrantExpired for it, and GrantNotFound is
\* reported only for a key the ledger does not hold.
C5_Reported ==
    ByDelegate =>
        /\ last.result.kind = "GrantExpired" =>
             \E i \in 1..Len(last.msgs) :
                /\ last.msgs[i] = last.result.type_url
                /\ Present(last.msgs[i], last.pubkey)
                /\ ExpiryMet(GRANTS[<<last.msgs[i], last.pubkey>>].expiry, block)
        /\ last.result.kind = "GrantNotFound" =>
             \E i \in 1..Len(last.msgs) :
                /\ last.msgs[i] = last.result.type_url
                /\ ~Present(last.msgs[i], last.pubkey)
        /\ (Len(last.msgs) = 1 /\ Present(last.msgs[1], last.pubkey)
                               /\ ~Covered(last.msgs[1], last.pubkey)) =>
             last.result = GrantExpired(last.msgs[1], to_base64(last.pubkey))

C5_RemovedOnlyByRevoke ==
    \A k \in GrantKeys :
        (GRANTS[k] # Absent /\ GRANTS'[k] = Absent) =>
            /\ last'.op = "revoke"
            /\ last'.result = Ok
            /\ <<last'.type_url, last'.grantee>> = k

\* C5: in every state an expired record is reported GrantExpired and only an
\* absent key GrantNotFound, and in every step a record leaves the ledger only
\* by a successful revoke of its key.
C5_ExpiredIsNotMissing == []C5_Reported /\ [][C5_RemovedOnlyByRevoke]_vars

\* the block has advanced past the expiry of a stored grant, and before_tx
\* reports GrantExpired for it
C5_Witness ==
    /\ ByDelegate
    /\ block.height > 1
    /\ last.msgs = <<last.result.type_url>>
    /\ last.result.kind = "GrantExpired"
    /\ Present(last.msgs[1], last.pubkey)

\* the positions of the last batch whose scope the signer has no grant for
Missing == {i \in 1..Len(last.msgs) : ~Present(last.msgs[i], last.pubkey)}

FirstMissing == CHOOSE i \in Missing : \A j \in Missing : i <= j

\* C6 as stated: for a non-owner signer and a batch of several scopes, a scope
\* without a grant makes before_tx fail GrantNotFound, whatever the other
\* messages are.
C6_Original ==
    (ByDelegate /\ Len(last.msgs) >= 2 /\ Missing # {}) =>
        last.result.kind = "GrantNotFound"

\* C6 (amended): for a non-owner signer and a batch of several scopes, a scope
\* without a grant makes before_tx fail for the whole batch: with GrantNotFound
\* for that scope when every message before the first such message is covered
\* by an unexpired grant (so whenever all the other scopes are covered), and
\* with GrantExpired when an earlier message's grant has expired.
C6_MissingGrantRejectsBatch ==
    (ByDelegate /\ Len(last.msgs) >= 2 /\ Missing # {}) =>
        IF \A j \in 1..(FirstMissing - 1) : Covered(last.msgs[j], last.pubkey)
        THEN last.result = GrantNotFound(last.msgs[FirstMissing],
                                         to_base64(last.pubkey))
        ELSE last.result.kind = "GrantExpired"

\* the first scope is covered, the second has no grant, the signature is good:
\* GrantNotFound for the second scope
C6_Witness ==
    /\ ByDelegate
    /\ Len(last.msgs) = 2
    /\ Covered(last.msgs[1], last.pubkey)
    /\ ~Present(last.msgs[2], last.pubkey)
    /\ SignatureVerifies
    /\ last.result = GrantNotFound(last.msgs[2], to_base64(last.pubkey))

\* C7: a grant call from the account itself whose expiry is already met at the
\* current block fails NewGrantExpired and writes nothing: the ledger, with
\* any grant already stored under the same (scope, delegate), stays as it was.
C7_ExpiredGrantStep ==
    (last'.op = "grant" /\ last'.sender = ContractAddr
                        /\ ExpiryMet(last'.expiry, block')) =>
        /\ last'.result = Err("NewGrantExpired")
        /\ GRANTS' = GRANTS

\* C7: every step is such a step: a self-sent grant with a met expiry fails
\* NewGrantExpired and leaves the ledger as it was.
C7_ExpiredGrantRefused == [][C7_ExpiredGrantStep]_vars

\* the expiry equals the current height or time, a grant is stored under the key
C7_Witness ==
    /\ last.op = "grant"
    /\ last.sender = ContractAddr
    /\ last.expiry \in {AtHeight(block.height), AtTime(block.time)}
    /\ last.prev # Absent
    /\ GRANTS[<<last.type_url, last.grantee>>] = last.prev
    /\ last.result = Err("NewGrantExpired")

\* C8: the ledger holds one grant per (scope, delegate): after a successful
\* grant(S, D, E) the lookup of (S, D) returns the grant with expiry E whatever
\* was stored before, and after a successful revoke(S, D) it returns absent.
C8_LookupAfterWrite ==
    /\ (last.op = "grant" /\ last.result = Ok) =>
          may_load(GRANTS, last.type_url, last.grantee) = Grant(last.expiry)
    /\ (last.op = "revoke" /\ last.result = Ok) =>
          may_load(GRANTS, last.type_url, last.grantee) = Absent

\* a grant replaces an expired grant with another expiry
C8_Witness ==
    /\ last.op = "grant"
    /\ last.result = Ok
    /\ last.prev # Absent
    /\ ExpiryMet(last.prev.expiry, block)
    /\ last.prev # Grant(last.expiry)
    /\ GRANTS[<<last.type_url, last.grantee>>] = Grant(last.expiry)

\* C9: a revoke(S, D) from the account itself succeeds when (S, D) is not in
\* the ledger and leaves the ledger unchanged; revoke is idempotent: a second
\* revoke(S, D) gives the same ledger and the same result as the first.
C9_RevokeStep ==
    (last'.op = "revoke" /\ last'.sender = ContractAddr) =>
        /\ last'.result = Ok
        /\ GRANTS[<<last'.type_url, last'.grantee>>] = Absent => GRANTS' = GRANTS
        /\ revoke_store(GRANTS', last'.sender, last'.type_url, last'.grantee)
             = GRANTS'
        /\ revoke_result(last'.sender) = last'.result

\* C9: every step is such a step: a self-sent revoke succeeds, is a no-op on
\* an absent key, and is idempotent.
C9_RevokeIdempotent == [][C9_RevokeStep]_vars

\* a revoke of a key the ledger does not hold, other keys being granted
C9_Witness ==
    /\ last.op = "revoke"
    /\ last.sender = ContractAddr
    /\ last.prev = Absent
    /\ \E k \in GrantKeys : GRANTS[k] # Absent
    /\ last.result = Ok

\* C10: before_tx and after_tx never change persistent state: accepted or
\* failed, they leave the owner key and the ledger as they were; after_tx
\* succeeds in every state.
C10_HookStep ==
    last'.op \in {"before_tx", "after_tx"} =>
        PUBKEY' = PUBKEY /\ GRANTS' = GRANTS

\* C10: every before_tx / after_tx step leaves the owner key and the ledger
\* unchanged, and after_tx always succeeds.
C10_HooksReadOnly ==
    /\ [][C10_HookStep]_vars
    /\ [](last.op = "after_tx" => last.result = Ok)

\* a delegate's transaction was accepted on its grants, which are still there
C10_Witness ==
    /\ ByDelegate
    /\ last.msgs # <<>>
    /\ AllCovered
    /\ last.result = Ok


(***************************************************************************)
(* C11 .. C20                                                              *)
(***************************************************************************)

\* the grant check of the last before_tx does not stop it: the owner signs, or
\* every message is covered for the claimed signer
PassesGrantCheck == ByOwner \/ (ByDelegate /\ AllCovered)

\* C11: every signature-verification failure in before_tx, a malformed
\* signature that the verifier rejects with an error included, makes before_tx
\* fail with InvalidSignature.
C11_VerificationFailure ==
    (PassesGrantCheck /\ ~SignatureVerifies) =>
        last.result = Err("InvalidSignature")

\* a covered delegate presents a malformed signature
C11_Witness ==
    /\ ByDelegate
    /\ last.msgs # <<>>
    /\ AllCovered
    /\ last.signature = Malformed
    /\ last.result = Err("InvalidSignature")

\* C13: while the owner key is not set, before_tx fails NotInitialized for
\* every batch, claimed signer and signature, with no grant lookup and no
\* signature verification deciding the result.
C13_NotInitialized ==
    (last.op = "before_tx" /\ PUBKEY = NoKey) =>
        last.result = Err("NotInitialized")

\* a key is claimed with its own good signature over a non-empty batch, before
\* the owner key is set
C13_Witness ==
    /\ last.op = "before_tx"
    /\ PUBKEY = NoKey
    /\ last.pubkey \in Keys
    /\ last.msgs # <<>>
    /\ last.signature = SignedBy(last.pubkey, last.sign_bytes)
    /\ last.result = Err("NotInitialized")

\* C15: for a non-owner signer the grant check comes before the signature
\* verification: with a message whose grant is absent or expired and a
\* signature that is invalid or malformed, before_tx fails GrantNotFound or
\* GrantExpired, never InvalidSignature.
C15_GrantCheckFirst ==
    (ByDelegate /\ ~AllCovered /\ ~SignatureVerifies) =>
        last.result.kind \in GrantErrors

\* an uncovered batch with a malformed signature
C15_Witness ==
    /\ ByDelegate
    /\ ~AllCovered
    /\ last.signature = Malformed
    /\ last.result.kind \in GrantErrors

\* the positions of the last batch not covered for the claimed signer
Uncovered == {i \in 1..Len(last.msgs) : ~Covered(last.msgs[i], last.pubkey)}

FirstUncovered == CHOOSE i \in Uncovered : \A j \in Uncovered : i <= j

\* C16: the batch check goes through the messages in order and stops at the
\* first one whose grant is absent or expired: the failure is that message's
\* (GrantNotFound if absent, GrantExpired if expired) with its scope and the
\* signer as delegate, whatever the later messages are.
C16_FirstFailureWins ==
    (ByDelegate /\ Uncovered # {}) =>
        last.result =
            IF Present(last.msgs[FirstUncovered], last.pubkey)
            THEN GrantExpired(last.msgs[FirstUncovered], to_base64(last.pubkey))
            ELSE GrantNotFound(last.msgs[FirstUncovered], to_base64(last.pubkey))

\* an expired grant on message 1, no grant on message 2: GrantExpired for
\* the scope of message 1
C16_Witness ==
    /\ ByDelegate
    /\ Len(last.msgs) = 2
    /\ last.msgs[1] # last.msgs[2]
    /\ Present(last.msgs[1], last.pubkey)
    /\ ~Covered(last.msgs[1], last.pubkey)
    /\ ~Present(last.msgs[2], last.pubkey)
    /\ last.result = GrantExpired(last.msgs[1], to_base64(last.pubkey))

\* C17: for a non-owner signer and an empty batch the grant check passes
\* vacuously: before_tx accepts any key whose signature verifies, also a key
\* that holds no grant at all.
C17_EmptyBatch ==
    (ByDelegate /\ last.msgs = <<>> /\ SignatureVerifies) => last.result = Ok

\* a key without any grant in the ledger is accepted on an empty batch
C17_Witness ==
    /\ ByDelegate
    /\ last.msgs = <<>>
    /\ \A u \in TypeUrls : ~Present(u, last.pubkey)
    /\ last.result = Ok

\* C18: grant and before_tx use the same expiry predicate: right after a
\* successful grant(S, D, E), a before_tx at the same block with signer D and
\* the batch <<S>> fails neither GrantExpired nor GrantNotFound, whatever the
\* payload and signature.
C18_GrantUsableAtOnce ==
    (last.op = "grant" /\ last.result = Ok) =>
        \A sign_bytes \in Payloads, signature \in Signatures :
            before_tx(PUBKEY, GRANTS, block, <<last.type_url>>, last.grantee,
                      sign_bytes, signature).kind \notin GrantErrors

\* a non-owner key is granted a scope with an expiry one past the current
\* height or time, the nearest expiry grant accepts
C18_Witness ==
    /\ last.op = "grant"
    /\ last.result = Ok
    /\ last.grantee # PUBKEY
    /\ last.expiry \in {AtHeight(block.height + 1), AtTime(block.time + 1)}
    /\ before_tx(PUBKEY, GRANTS, block, <<last.type_url>>, last.grantee, "p1",
                 SignedBy(last.grantee, "p1")) = Ok

\* C19: in grant the caller check comes before the expiry check: a call from
\* a sender other than the account with an expiry that is already met fails
\* Unauthorized, not NewGrantExpired.
C19_CallerCheckFirst ==
    (last.op = "grant" /\ last.sender # ContractAddr
                       /\ ExpiryMet(last.expiry, block)) =>
        last.result = Err("Unauthorized")

\* a stranger's grant with a met expiry
C19_Witness ==
    /\ last.op = "grant"
    /\ last.sender # ContractAddr
    /\ ExpiryMet(last.expiry, block)
    /\ last.result = Err("Unauthorized")

\* C20: a successful grant(S, D, E) or revoke(S, D) changes only the ledger
\* entry under (S, D): the entries under every other key (same scope with
\* another delegate, same delegate with another scope) and the owner key stay.
C20_WriteStep ==
    (last'.op \in {"grant", "revoke"} /\ last'.result = Ok) =>
        /\ \A k \in GrantKeys :
              k # <<last'.type_url, last'.grantee>> => GRANTS'[k] = GRANTS[k]
        /\ PUBKEY' = PUBKEY

\* C20: every step is such a step: a successful grant or revoke touches the
\* entry of its own key only.
C20_OnlyOwnEntry == [][C20_WriteStep]_vars

\* a grant replaced the entry of its key while the same scope under another
\* delegate and the same delegate under another scope hold other grants
C20_Witness ==
    /\ last.op = "grant"
    /\ last.result = Ok
    /\ last.prev # Grant(last.expiry)
    /\ \E k \in GrantKeys :
          /\ k[1] = last.type_url /\ k[2] # last.grantee
          /\ GRANTS[k] \notin {Absent, Grant(last.expiry)}
    /\ \E k \in GrantKeys :
          /\ k[1] # last.type_url /\ k[2] = last.grantee
          /\ GRANTS[k] \notin {Absent, Grant(last.expiry)}

\* C12: the owner key is set once, at instantiate, and is immutable afterwards:
\* no grant, revoke, before_tx, after_tx or query step changes the stored key.
C12_OwnerKeyImmutable == [][PUBKEY # NoKey => PUBKEY' = PUBKEY]_vars

\* a grant to another key succeeded and the owner key is the instantiated one
C12_Witness ==
    /\ last.op = "grant"
    /\ last.result = Ok
    /\ last.grantee # PUBKEY
    /\ PUBKEY \in OwnerKeys

\* the key of a listed grant
KeyOf(entry) == <<entry.type_url, entry.grantee>>

\* the pages that follow a page: each asked with the last key of the page
\* before as start_after, until a page is empty or shorter than limit
RECURSIVE FollowPages(_, _, _)
FollowPages(page, limit, fuel) ==
    IF page = <<>> \/ Len(page) < limit \/ fuel = 0 THEN page
    ELSE page \o FollowPages(query_grants(GRANTS, KeyOf(page[Len(page)]), limit),
                             limit, fuel - 1)

\* the grants the ledger holds after a cursor
HeldAfter(cursor) ==
    {k \in GrantKeys : Present(k[1], k[2]) /\ (cursor = NoCursor \/ KeyLess(cursor, k))}

\* a listing holds exactly the grants after the cursor, each once, ascending
ListsAllAfter(listing, cursor) ==
    /\ \A i \in 1..Len(listing) : listing[i] = Listed(GRANTS, KeyOf(listing[i]))
    /\ {KeyOf(listing[i]) : i \in 1..Len(listing)} = HeldAfter(cursor)
    /\ \A i \in 1..(Len(listing) - 1) : KeyLess(KeyOf(listing[i]), KeyOf(listing[i + 1]))

====
